---- MODULE Spec2Model ----
(***************************************************************************)
(* Model of src/src/sentry/backup/dependencies.py: the dependency graph    *)
(* (dependencies), its dangling classifier (resolve_dangling), the         *)
(* topological sorter (sorted_dependencies), get_model, the comparisons of *)
(* NormalizedModelName and PrimaryKeyMap; and of the custom rules of       *)
(* src/src/sentry/models/dynamicsampling.py (CustomDynamicSamplingRule).   *)
(*                                                                         *)
(* A model (entity type) is an integer: the rank of its NormalizedModelName*)
(* in the ordering NormalizedModelName.__lt__ defines (string order of the *)
(* lower-cased name), so m < n here is name(m) < name(n) there. Where the  *)
(* relations of one model are built from its fields (lines 303..392) a     *)
(* model is its class name and a string is a sequence of characters.       *)
(***************************************************************************)
EXTENDS Integers, Sequences, FiniteSets, TLC

\* Number of models of non-excluded apps in the registry of the general specification.
NumModels == 3

\* Largest number of foreign-key fields in a whole schema of the general specification.
MaxFKs == 3

\* A model of an app in EXCLUDED_APPS: it is in models_from_names
\* (so a field can refer to it) and never a key of model_dependencies_dict.
ExcludedModel == 0

\* A foreign_model_name that names no installed model: models_from_names has no such
\* key (line 334).
UnknownModel == -1

VARIABLES
    model_order,    \* the keys of model_dependencies_dict in insertion (registry) order
    foreign_keys,   \* ModelRelations.foreign_keys of each model, in dict order
    roots,          \* relocation_root_models
    dangling,       \* ModelRelations.dangling of each model: "None", "True", "False"
    pc,             \* dependencies(): "idle", "resolve", "done" (cached), "error" (raised)
    idx,            \* position of the loop of line 449 in model_order
    dep_error,      \* the exception dependencies() raised
    sort_pc,        \* sorted_dependencies(): "idle", "loop", "done", "error"
    working,        \* its local list model_dependencies_dict
    model_list,     \* its local list model_list
    sort_error,     \* the models its RuntimeError names, in the message's order
    mapping,        \* PrimaryKeyMap.mapping: model name -> old pk -> <<new pk, kind>>
    log,            \* the insert calls made on the map so far, oldest first
    pk_ret,         \* the last PrimaryKeyMap call: its arguments and what it returned
    got,            \* the last get_model call: its argument and what it returned
    cache,          \* the object lru_cache keeps for dependencies() (NoObject: none)
    builds,         \* how many times the body of dependencies() was entered
    calls,          \* each thread's call of dependencies(): where it is, its object
    compared,       \* the last comparison made on a NormalizedModelName, its outcome
    rules,          \* the table of CustomDynamicSamplingRule: row i has primary key i
    now,            \* timezone.now(), in minutes
    rule_ret,       \* the last call made on the rules: its arguments and its outcome
    building,       \* the model whose relations are built (NoModel: none)
    fields,         \* model._meta.get_fields() of that model
    relations       \* the foreign_keys built for it, or the exception raised

vars == <<model_order, foreign_keys, roots, dangling, pc, idx, dep_error,
          sort_pc, working, model_list, sort_error, mapping, log, pk_ret, got,
          cache, builds, calls, compared, rules, now, rule_ret,
          building, fields, relations>>

schema == <<model_order, foreign_keys, roots>>
depVars == <<dangling, pc, idx, dep_error>>
sortVars == <<sort_pc, working, model_list, sort_error, got>>
pkVars == <<mapping, log, pk_ret>>
callVars == <<cache, builds, calls>>
cmpVars == <<compared>>
ruleVars == <<rules, now, rule_ret>>
fieldVars == <<building, fields, relations>>

----------------------------------------------------------------------------
\* Sequences

Range(s) == {s[i] : i \in 1..Len(s)}

Reverse(s) == [i \in 1..Len(s) |-> s[Len(s) + 1 - i]]

Orders(S) == {s \in [1..Cardinality(S) -> S] : Range(s) = S}

\* The position of x in s (0 when absent).
IndexOf(s, x) == IF x \in Range(s) THEN CHOOSE i \in 1..Len(s) : s[i] = x ELSE 0

----------------------------------------------------------------------------
\* The graph

\* model_dependencies_dict.keys()
Nodes == Range(model_order)

\* ForeignField (the kind is read by no algorithm and is left out)
ForeignField(model, nullable) == [model |-> model, nullable |-> nullable]

\* ModelRelations.flatten
Flatten(m) == {foreign_keys[m][i].model : i \in 1..Len(foreign_keys[m])}

NoError == [kind |-> "none", model |-> ExcludedModel]

\* Line 438 without its test: a nullable foreign key is followed too.
Followed_Always(ff) == TRUE

\* Line 438: only a non-nullable foreign key is followed.
Followed(ff) == ~ff.nullable

\* resolve_dangling(seen, model_name) run on the flags d: the flags it leaves, the
\* value it returns and the exception it raises ("none" when it returns).
RECURSIVE ResolveDangling(_, _, _)
RECURSIVE ResolveForeignKeys(_, _, _, _)

\* Lines 437..447: the loop over foreign_keys.values() from position i, then the return.
ResolveForeignKeys(d, seen, model_name, i) ==
    IF i > Len(foreign_keys[model_name])
    THEN [d |-> d, ret |-> d[model_name], err |-> NoError]
    ELSE LET ff == foreign_keys[model_name][i] IN
         IF ~Followed(ff)
         THEN ResolveForeignKeys(d, seen, model_name, i + 1)
         ELSE LET r == ResolveDangling(d, seen, ff.model) IN
              IF r.err.kind # "none" THEN r
              ELSE IF r.ret = "False"
              THEN [d |-> [r.d EXCEPT ![model_name] = "False"], ret |-> "False",
                    err |-> NoError]
              ELSE ResolveForeignKeys(r.d, seen, model_name, i + 1)

\* Lines 419..436 with the memo test of line 426 made before the "seen" test of line
\* 422: a model in progress answers with its optimistic flag.
ResolveDangling_MemoFirst(d, seen, model_name) ==
    IF model_name \notin DOMAIN d
    THEN [d |-> d, ret |-> "None", err |-> [kind |-> "KeyError", model |-> model_name]]
    ELSE IF d[model_name] # "None"
    THEN [d |-> d, ret |-> d[model_name], err |-> NoError]
    ELSE IF model_name \in seen
    THEN [d |-> d, ret |-> "None",
          err |-> [kind |-> "CircularDependency", model |-> model_name]]
    ELSE ResolveForeignKeys([d EXCEPT ![model_name] = "True"],
                            seen \cup {model_name}, model_name, 1)

\* Lines 419..436 without the memo test of lines 426..427: every call computes the
\* flag again.
ResolveDangling_NoMemo(d, seen, model_name) ==
    IF model_name \notin DOMAIN d
    THEN [d |-> d, ret |-> "None", err |-> [kind |-> "KeyError", model |-> model_name]]
    ELSE IF model_name \in seen
    THEN [d |-> d, ret |-> "None",
          err |-> [kind |-> "CircularDependency", model |-> model_name]]
    ELSE ResolveForeignKeys([d EXCEPT ![model_name] = "True"],
                            seen \cup {model_name}, model_name, 1)

\* Lines 419..436.
ResolveDangling(d, seen, model_name) ==
    IF model_name \notin DOMAIN d
    THEN [d |-> d, ret |-> "None", err |-> [kind |-> "KeyError", model |-> model_name]]
    ELSE IF model_name \in seen
    THEN [d |-> d, ret |-> "None",
          err |-> [kind |-> "CircularDependency", model |-> model_name]]
    ELSE IF d[model_name] # "None"
    THEN [d |-> d, ret |-> d[model_name], err |-> NoError]
    ELSE ResolveForeignKeys([d EXCEPT ![model_name] = "True"],
                            seen \cup {model_name}, model_name, 1)

\* Lines 411..412 left out: the roots stay unset.
SeedRoots_Unseeded == [m \in Nodes |-> "None"]

\* Lines 394..412: every node starts with dangling = None, the roots are set to False.
SeedRoots == [m \in Nodes |-> IF m \in roots THEN "False" ELSE "None"]

\* Lines 268..270 and 456 without lru_cache: every call runs the body.
CacheMiss_Always(state) == state \in {"idle", "error", "done"}

\* Lines 268..270 and 456, @lru_cache(maxsize=1) on a function of no argument: a call
\* runs the body when no result is kept, which is before the first call and after a
\* call that raised (lru_cache keeps no exception).
CacheMiss(state) == state \in {"idle", "error"}

\* Line 334 with models_from_names.get(...): an unknown target raises nothing.
Unresolvable_Never == FALSE

\* Line 334: models_from_names[...] has no key for the target of some
\* HybridCloudForeignKey.
Unresolvable ==
    \E m \in Nodes : \E i \in 1..Len(foreign_keys[m]) :
        foreign_keys[m][i].model = UnknownModel

\* dependencies() is entered and runs to line 448, or raises the KeyError of line 334
\* while it builds model_dependencies_dict.
DepStart ==
    /\ CacheMiss(pc)
    /\ idx' = 1
    /\ IF Unresolvable
       THEN /\ pc' = "error"
            /\ dep_error' = [kind |-> "KeyError", model |-> UnknownModel]
            /\ dangling' = <<>>
       ELSE /\ pc' = "resolve"
            /\ dep_error' = NoError
            /\ dangling' = SeedRoots
    /\ UNCHANGED <<schema, sortVars, pkVars, callVars, cmpVars, ruleVars, fieldVars>>

\* One iteration of the loop of lines 449..451.
DepResolve ==
    /\ pc = "resolve"
    /\ idx <= Len(model_order)
    /\ LET model_name == model_order[idx]
           r == ResolveDangling(dangling, {}, model_name)
       IN IF model_name \in roots
          THEN /\ idx' = idx + 1
               /\ UNCHANGED <<dangling, pc, dep_error>>
          ELSE IF r.err.kind # "none"
          THEN /\ pc' = "error"
               /\ dep_error' = r.err
               /\ dangling' = r.d
               /\ UNCHANGED idx
          ELSE /\ dangling' = r.d
               /\ idx' = idx + 1
               /\ UNCHANGED <<pc, dep_error>>
    /\ UNCHANGED <<schema, sortVars, pkVars, callVars, cmpVars, ruleVars, fieldVars>>

\* Line 453: the dict is returned and lru_cache keeps it.
DepReturn ==
    /\ pc = "resolve"
    /\ idx > Len(model_order)
    /\ pc' = "done"
    /\ UNCHANGED <<schema, dangling, idx, dep_error, sortVars, pkVars, callVars, cmpVars, ruleVars, fieldVars>>

----------------------------------------------------------------------------
\* sorted_dependencies

\* Lines 488..491 with "found" set by any satisfied dependency instead of cleared by
\* any unsatisfied one.
Found_Any(deps, model_set, ml) ==
    deps = {} \/ \E d \in deps : d \notin model_set \/ d \in Range(ml)

\* Lines 488..491 without "d not in model_set": every dependency has to be in
\* model_list.
Found_InListOnly(deps, model_set, ml) ==
    \A d \in deps : d \in Range(ml)

\* Lines 488..491: every dependency is outside model_set or already in model_list.
Found(deps, model_set, ml) ==
    \A d \in deps : d \notin model_set \/ d \in Range(ml)

\* Line 496 left out: a model that is not promoted is dropped.
Skip_Dropped(skipped, model) == skipped

\* Line 496: skipped.append(model_deps)
Skip(skipped, model) == Append(skipped, model)

\* Lines 480..496: the inner loop pops the working list from its end.
RECURSIVE SortScan(_, _, _, _)
SortScan(work, ml, skipped, changed) ==
    IF work = <<>>
    THEN [model_list |-> ml, skipped |-> skipped, changed |-> changed]
    ELSE LET model == work[Len(work)]
             rest == SubSeq(work, 1, Len(work) - 1)
         IN IF Found(Flatten(model), Nodes, ml)
            THEN SortScan(rest, Append(ml, model), skipped, TRUE)
            ELSE SortScan(rest, ml, Skip(skipped, model), changed)

\* sorted(skipped, key=get_model_name): insertion into an ascending list.
RECURSIVE InsertByName(_, _)
InsertByName(s, m) ==
    IF s = <<>> THEN <<m>>
    ELSE IF m < s[1] THEN <<m>> \o s
    ELSE <<s[1]>> \o InsertByName(Tail(s), m)

\* Line 502 without sorted(): the skipped models in the order they were skipped.
SortedByName_Unsorted(s) == s

RECURSIVE SortedByName(_)
SortedByName(s) ==
    IF s = <<>> THEN <<>>
    ELSE InsertByName(SortedByName(SubSeq(s, 1, Len(s) - 1)), s[Len(s)])

\* Lines 464..476: the values of the cached graph, reversed. A call made before
\* dependencies() has returned runs dependencies() first (the Dep actions).
SortStart ==
    /\ CacheMiss(sort_pc)
    /\ pc = "done"
    /\ working' = Reverse(model_order)
    /\ model_list' = <<>>
    /\ sort_error' = <<>>
    /\ sort_pc' = "loop"
    /\ UNCHANGED <<schema, depVars, pkVars, callVars, cmpVars, ruleVars, fieldVars, got>>

\* Line 497 left out: a pass that promoted nothing is followed by another pass.
Stuck_Never(r) == FALSE

\* Line 497: the pass r promoted nothing.
Stuck(r) == ~r.changed

\* One pass of the outer loop, lines 477..505.
SortPass ==
    /\ sort_pc = "loop"
    /\ working # <<>>
    /\ LET r == SortScan(working, model_list, <<>>, FALSE) IN
       IF Stuck(r)
       THEN /\ sort_pc' = "error"
            /\ sort_error' = SortedByName(r.skipped)
            /\ working' = <<>>
            /\ model_list' = r.model_list
       ELSE /\ working' = r.skipped
            /\ model_list' = r.model_list
            /\ UNCHANGED <<sort_pc, sort_error>>
    /\ UNCHANGED <<schema, depVars, pkVars, callVars, cmpVars, ruleVars, fieldVars, got>>

\* Line 507.
SortReturn ==
    /\ sort_pc = "loop"
    /\ working = <<>>
    /\ sort_pc' = "done"
    /\ UNCHANGED <<schema, depVars, working, model_list, sort_error, pkVars, callVars, cmpVars, ruleVars, fieldVars, got>>

\* What a get_model call looks like once it returned.
GetModelCall(model_name, ret) == [op |-> "get_model", name |-> model_name, ret |-> ret]

\* Lines 158..161: the first element of the sequence with the name asked for, None
\* when there is none.
FirstNamed(seq, model_name) ==
    IF \E i \in 1..Len(seq) : seq[i] = model_name
    THEN <<seq[CHOOSE i \in 1..Len(seq) :
                  /\ seq[i] = model_name
                  /\ \A j \in 1..(i - 1) : seq[j] # model_name]>>
    ELSE <<>>

\* get_model(model_name), lines 154..161, called once sorted_dependencies() has
\* returned: its call of sorted_dependencies() is answered by lru_cache. (A call made
\* earlier runs sorted_dependencies() first: the Sort actions.)
GetModel ==
    /\ sort_pc = "done"
    /\ \E model_name \in Nodes \cup {ExcludedModel} :
          got' = GetModelCall(model_name, FirstNamed(model_list, model_name))
    /\ UNCHANGED <<schema, depVars, sort_pc, working, model_list, sort_error, pkVars, callVars, cmpVars, ruleVars, fieldVars>>

----------------------------------------------------------------------------
\* PrimaryKeyMap

\* Optional[...]: None is the empty tuple, a value v is <<v>>.
None == <<>>
Some(v) == <<v>>

\* ImportKind
ImportKind == {"Inserted", "Existing", "Overwrite"}

\* A dict with no key.
EmptyDict == [k \in {} |-> None]

\* d[k] = v on a dict
DictSet(d, k, v) == [x \in DOMAIN d \cup {k} |-> IF x = k THEN v ELSE d[x]]

\* self.mapping[name] on the defaultdict(dict): a missing name reads as a new dict...
DefaultGet(m, name) == IF name \in DOMAIN m THEN m[name] ELSE EmptyDict

\* ...and is added to the mapping by the read.
DefaultTouch(m, name) == IF name \in DOMAIN m THEN m ELSE DictSet(m, name, EmptyDict)

\* Line 265 as a setdefault: an old pk that is already mapped keeps its entry.
InsertEntry_KeepFirst(m, name, old, new, kind) ==
    IF old \in DOMAIN DefaultGet(m, name)
    THEN m
    ELSE DictSet(m, name, DictSet(DefaultGet(m, name), old, <<new, kind>>))

\* Line 265 as self.mapping[str(model_name)] = {old: (new, kind)}: the insert
\* forgets the other old pks of the model.
InsertEntry_Replace(m, name, old, new, kind) ==
    DictSet(m, name, DictSet(EmptyDict, old, <<new, kind>>))

\* Line 265: self.mapping[str(model_name)][old] = (new, kind)
InsertEntry(m, name, old, new, kind) ==
    DictSet(m, name, DictSet(DefaultGet(m, name), old, <<new, kind>>))

\* Lines 232 and 254 as pk_map[old] instead of pk_map.get(old): an old pk that is
\* not mapped raises KeyError.
Lookup_Subscript(m, name, old, f) ==
    IF name \notin DOMAIN m THEN [ret |-> None, raised |-> FALSE]
    ELSE IF old \notin DOMAIN m[name] THEN [ret |-> None, raised |-> TRUE]
    ELSE [ret |-> Some(m[name][old][f]), raised |-> FALSE]

\* Lines 228..236 and 250..258 at field f (1: the new pk, 2: the kind): what the
\* lookup returns, and whether it raised.
Lookup(m, name, old, f) ==
    IF name \notin DOMAIN m THEN [ret |-> None, raised |-> FALSE]
    ELSE IF old \notin DOMAIN m[name] THEN [ret |-> None, raised |-> FALSE]
    ELSE [ret |-> Some(m[name][old][f]), raised |-> FALSE]

\* Line 243: {entry[0] for entry in mapping[name].items()}; an item is (old, (new, kind)).
PksOf(m, name) == {item[1] : item \in {<<old, m[name][old]>> : old \in DOMAIN m[name]}}

PkModels == {1, 2}
OldPks == {5, 6}
NewPks == {105, 999}

\* Largest number of insert calls on one map.
MaxInserts == 3

Call(op, name, old, res) ==
    [op |-> op, model |-> name, old |-> old, ret |-> res.ret, raised |-> res.raised]

\* PrimaryKeyMap.insert
PkInsert ==
    \E name \in PkModels, old \in OldPks, new \in NewPks, kind \in ImportKind :
        /\ Len(log) < MaxInserts
        /\ mapping' = InsertEntry(mapping, name, old, new, kind)
        /\ log' = Append(log, [model |-> name, old |-> old, new |-> new, kind |-> kind])
        /\ pk_ret' = Call("insert", name, old, [ret |-> None, raised |-> FALSE])
        /\ UNCHANGED <<schema, depVars, sortVars, callVars, cmpVars, ruleVars, fieldVars>>

\* PrimaryKeyMap.get_pk
PkGetPk ==
    \E name \in PkModels, old \in OldPks :
        /\ pk_ret' = Call("get_pk", name, old, Lookup(mapping, name, old, 1))
        /\ UNCHANGED <<schema, depVars, sortVars, callVars, cmpVars, ruleVars, fieldVars, mapping, log>>

\* PrimaryKeyMap.get_kind
PkGetKind ==
    \E name \in PkModels, old \in OldPks :
        /\ pk_ret' = Call("get_kind", name, old, Lookup(mapping, name, old, 2))
        /\ UNCHANGED <<schema, depVars, sortVars, callVars, cmpVars, ruleVars, fieldVars, mapping, log>>

\* PrimaryKeyMap.get_pks (old is no argument of it: recorded as 0)
PkGetPks ==
    \E name \in PkModels :
        /\ mapping' = DefaultTouch(mapping, name)
        /\ pk_ret' = Call("get_pks", name, 0,
                          [ret |-> PksOf(mapping', name), raised |-> FALSE])
        /\ UNCHANGED <<schema, depVars, sortVars, callVars, cmpVars, ruleVars, fieldVars, log>>

InitPk ==
    /\ mapping = EmptyDict
    /\ log = <<>>
    /\ pk_ret = Call("init", 0, 0, [ret |-> None, raised |-> FALSE])

NextPk ==
    \/ PkInsert
    \/ PkGetPk
    \/ PkGetKind
    \/ PkGetPks

----------------------------------------------------------------------------
\* dependencies() called from several threads

\* Number of threads that call dependencies().
NumThreads == 3

Threads == 1..NumThreads

\* No object: the cache of lru_cache is empty, a thread holds no result.
NoObject == 0

Idle == [pc |-> "idle", obj |-> NoObject]

InitCalls ==
    /\ cache = NoObject
    /\ builds = 0
    /\ calls = [t \in Threads |-> Idle]

\* Thread t calls dependencies(), line 269: the wrapper of lru_cache looks the key up
\* and, on a hit, returns the object it keeps; on a miss it calls the body, holding no
\* lock, and the body makes its own dict (line 287), here numbered by its build.
Enter(t) ==
    /\ calls[t].pc = "idle"
    /\ IF cache # NoObject
       THEN /\ calls' = [calls EXCEPT ![t] = [pc |-> "returned", obj |-> cache]]
            /\ UNCHANGED <<cache, builds>>
       ELSE /\ builds' = builds + 1
            /\ calls' = [calls EXCEPT ![t] = [pc |-> "body", obj |-> builds + 1]]
            /\ UNCHANGED cache
    /\ UNCHANGED <<schema, depVars, sortVars, pkVars, cmpVars, ruleVars, fieldVars>>

\* The body returns in thread t, line 453: the wrapper keeps the result unless the key
\* was added while the body ran, and returns the result of this call either way.
Finish(t) ==
    /\ calls[t].pc = "body"
    /\ cache' = IF cache = NoObject THEN calls[t].obj ELSE cache
    /\ calls' = [calls EXCEPT ![t].pc = "returned"]
    /\ UNCHANGED <<builds, schema, depVars, sortVars, pkVars, cmpVars, ruleVars, fieldVars>>

\* Thread t goes on and may call again.
Leave(t) ==
    /\ calls[t].pc = "returned"
    /\ calls' = [calls EXCEPT ![t] = Idle]
    /\ UNCHANGED <<cache, builds, schema, depVars, sortVars, pkVars, cmpVars, ruleVars, fieldVars>>

NextCalls ==
    \/ \E t \in Threads : Enter(t)
    \/ \E t \in Threads : Finish(t)
    \/ \E t \in Threads : Leave(t)

----------------------------------------------------------------------------
\* NormalizedModelName.__eq__ and __lt__

\* Number of different normalized names compared.
NumNames == 5

\* A Python value: its type and what it holds. A NormalizedModelName and a str hold
\* the rank of their text in string order, so two of them hold the same text exactly
\* when they hold the same rank.
Value(type, value) == [type |-> type, value |-> value]

NormalizedModelNames == {Value("NormalizedModelName", n) : n \in 1..NumNames}

\* The values that are no NormalizedModelName: None, strings (among them the text of
\* each name) and integers.
OtherValues ==
    {Value("NoneType", 0)}
        \cup {Value("str", n) : n \in 1..NumNames}
        \cup {Value("int", n) : n \in 1..NumNames}

\* What a comparison does: it returns ret, or it raises TypeError.
Returns(ret) == [ret |-> ret, raised |-> FALSE]
RaisesTypeError == [ret |-> FALSE, raised |-> TRUE]

\* Lines 33..40 without lines 34..35: None is treated as any other value.
NameEq_NoNoneCase(self, other) ==
    IF other.type # "NormalizedModelName" THEN RaisesTypeError
    ELSE Returns(self.value = other.value)

\* __eq__, lines 33..40.
NameEq(self, other) ==
    IF other.type = "NoneType" THEN Returns(FALSE)
    ELSE IF other.type # "NormalizedModelName" THEN RaisesTypeError
    ELSE Returns(self.value = other.value)

\* __lt__, lines 42..47.
NameLt(self, other) ==
    IF other.type # "NormalizedModelName" THEN RaisesTypeError
    ELSE Returns(self.value < other.value)

Comparison(op, self, other, res) ==
    [op |-> op, self |-> self, other |-> other, ret |-> res.ret, raised |-> res.raised]

InitCompared ==
    compared = Comparison("init", Value("NoneType", 0), Value("NoneType", 0),
                          Returns(FALSE))

\* self == other
CompareEq ==
    /\ \E self \in NormalizedModelNames, other \in NormalizedModelNames \cup OtherValues :
          compared' = Comparison("eq", self, other, NameEq(self, other))
    /\ UNCHANGED <<schema, depVars, sortVars, pkVars, callVars, ruleVars, fieldVars>>

\* self < other
CompareLt ==
    /\ \E self \in NormalizedModelNames, other \in NormalizedModelNames \cup OtherValues :
          compared' = Comparison("lt", self, other, NameLt(self, other))
    /\ UNCHANGED <<schema, depVars, sortVars, pkVars, callVars, ruleVars, fieldVars>>

NextCompare ==
    \/ CompareEq
    \/ CompareLt

----------------------------------------------------------------------------
\* CustomDynamicSamplingRule (src/src/sentry/models/dynamicsampling.py)

\* max number of custom rules that can be created per organization
MAX_CUSTOM_RULES == 2000

\* Largest number of rows the table ever gets.
MaxRules == 3

\* Last minute the clock reaches.
MaxTime == 3

\* The project_ids asked for: none, or one project of two.
ProjectIds == {{}, {1}, {2}}

\* A condition is the list of the clauses it joins; a clause is a number.

\* The end dates asked for.
EndDates == {1, 2}

\* The calls made: for one condition, every end date and every project_ids in the
\* first organization; for the other, an organization-level rule in each of two
\* organizations.
Requests ==
    [organization_id : {1}, condition : {<<2, 1>>}, end : EndDates,
     project_ids : ProjectIds]
        \cup [organization_id : {1, 2}, condition : {<<3>>}, end : {2},
              project_ids : {{}}]

\* The num_samples and sample_rate (in percent) asked for.
Samplings == {[num_samples |-> 100, sample_rate |-> 50]}

Min(S) == CHOOSE x \in S : \A y \in S : x <= y

Max(a, b) == IF a >= b THEN a ELSE b

\* to_order_independent_string, lines 40..57, on a list: the items in sorted order.
\* (get_condition_hash is sha1 of that string, taken to be free of collisions.)
RECURSIVE ToOrderIndependentString(_)
ToOrderIndependentString(val) ==
    IF val = <<>> THEN <<>>
    ELSE InsertByName(ToOrderIndependentString(SubSeq(val, 1, Len(val) - 1)),
                      val[Len(val)])

GetConditionHash(condition) == ToOrderIndependentString(condition)

\* The primary keys of the rows in the table.
RuleIds(table) == {i \in 1..Len(table) : ~table[i].deleted}

\* get_rule_for_org, lines 130..148, at time t: the rows the filter keeps; [:1] takes
\* one of them.
GetRuleForOrg(table, condition, organization_id, t) ==
    {i \in RuleIds(table) :
        /\ table[i].organization_id = organization_id
        /\ table[i].condition_hash = GetConditionHash(condition)
        /\ table[i].is_active
        /\ table[i].end_date > t}

\* Lines 234..240 with the inner SELECT over every row of the organization, active
\* or not: the value the UPDATE sets.
FreeRuleId_AnyRow(table, organization_id, t) ==
    LET taken == {table[i].rule_id :
                    i \in {j \in RuleIds(table) :
                             table[j].organization_id = organization_id}}
        free == {table[i].rule_id + 1 : i \in RuleIds(table)} \ taken
    IN IF free = {} THEN 1 ELSE Min(free)

\* The SQL of lines 234..240 at time t: MIN(rule_id) + 1 over the rows of the whole
\* table whose rule_id + 1 is the rule_id of no active, unexpired row of the
\* organization; 1 when there is no such row.
FreeRuleId(table, organization_id, t) ==
    LET taken == {table[i].rule_id :
                    i \in {j \in RuleIds(table) :
                             /\ table[j].organization_id = organization_id
                             /\ table[j].end_date > t
                             /\ table[j].is_active}}
        free == {table[i].rule_id + 1 : i \in RuleIds(table)} \ taken
    IN IF free = {} THEN 1 ELSE Min(free)

\* assign_rule_id, lines 221..244, on row id at time t.
AssignRuleId(table, id, t) ==
    [table EXCEPT ![id].rule_id = FreeRuleId(table, table[id].organization_id, t)]

\* Lines 170..188 with line 170 storing the end asked for instead of the larger one.
Updated_EndReplaced(rule, end, project_ids, sampling) ==
    LET r == [rule EXCEPT !.end_date = end,
                          !.num_samples = Max(sampling.num_samples, rule.num_samples),
                          !.sample_rate = Max(sampling.sample_rate, rule.sample_rate)]
    IN IF r.is_org_level THEN r
       ELSE IF project_ids = {}
       THEN [r EXCEPT !.is_org_level = TRUE, !.projects = {}]
       ELSE [r EXCEPT !.projects = r.projects \cup project_ids]

\* Lines 170..188: the existing rule after the update.
Updated(rule, end, project_ids, sampling) ==
    LET r == [rule EXCEPT !.end_date = Max(end, rule.end_date),
                          !.num_samples = Max(sampling.num_samples, rule.num_samples),
                          !.sample_rate = Max(sampling.sample_rate, rule.sample_rate)]
    IN IF r.is_org_level THEN r
       ELSE IF project_ids = {}
       THEN [r EXCEPT !.is_org_level = TRUE, !.projects = {}]
       ELSE [r EXCEPT !.projects = r.projects \cup project_ids]

\* Lines 192..205: the row objects.create makes (start_date is stored and read by
\* nothing here; it is left out).
Created(condition, end, project_ids, organization_id, sampling) ==
    [organization_id |-> organization_id,
     condition |-> condition,
     condition_hash |-> GetConditionHash(condition),
     sample_rate |-> sampling.sample_rate,
     num_samples |-> sampling.num_samples,
     end_date |-> end,
     is_active |-> TRUE,
     is_org_level |-> (project_ids = {}),
     rule_id |-> 0,
     projects |-> {},
     deleted |-> FALSE]

\* A call on the rules and its outcome: id is the primary key of the rule returned.
RuleCall(op, condition, end, project_ids, organization_id, id, raised) ==
    [op |-> op, condition |-> condition, end |-> end, project_ids |-> project_ids,
     organization_id |-> organization_id, id |-> id, raised |-> raised]

NoCall(op) == RuleCall(op, <<>>, 0, {}, 0, 0, FALSE)

InitRules ==
    /\ rules = <<>>
    /\ now = 0
    /\ rule_ret = NoCall("init")

\* update_or_create, lines 150..219. The clock is read at line 145 and, when a rule is
\* created, once more at line 232, where it may read a later minute.
UpdateOrCreate ==
    \E request \in Requests, sampling \in Samplings, later \in {now, now + 1} :
        LET condition == request.condition
            end == request.end
            project_ids == request.project_ids
            organization_id == request.organization_id
            existing == GetRuleForOrg(rules, condition, organization_id, now)
            id == Len(rules) + 1
            saved == Append(rules, Created(condition, end, project_ids,
                                           organization_id, sampling))
            assigned == AssignRuleId(saved, id, later)
        IN /\ later <= MaxTime
           /\ IF existing # {}
              THEN /\ later = now
                   /\ \E e \in existing :
                        /\ rules' = [rules EXCEPT
                                       ![e] = Updated(rules[e], end, project_ids, sampling)]
                        /\ rule_ret' = RuleCall("update_or_create", condition, end,
                                                project_ids, organization_id, e, FALSE)
              ELSE /\ Len(rules) < MaxRules
                   /\ IF assigned[id].rule_id > MAX_CUSTOM_RULES
                      THEN /\ rules' = [assigned EXCEPT ![id].deleted = TRUE]
                           /\ rule_ret' = RuleCall("update_or_create", condition, end,
                                                   project_ids, organization_id, id, TRUE)
                      ELSE /\ rules' = [assigned EXCEPT ![id].projects = project_ids]
                           /\ rule_ret' = RuleCall("update_or_create", condition, end,
                                                   project_ids, organization_id, id, FALSE)
           /\ now' = later
           /\ UNCHANGED <<schema, depVars, sortVars, pkVars, callVars, cmpVars, fieldVars>>

\* rule.is_active = False; rule.save() on one rule
\* (src/tests/sentry/models/test_dynamicsampling.py, lines 81..82).
Deactivate ==
    /\ \E id \in RuleIds(rules) :
          /\ rules[id].is_active
          /\ rules' = [rules EXCEPT ![id].is_active = FALSE]
    /\ rule_ret' = NoCall("deactivate")
    /\ UNCHANGED <<now, schema, depVars, sortVars, pkVars, callVars, cmpVars, fieldVars>>

\* deactivate_old_rules, lines 246..258: the grace period is one minute.
DeactivateOldRules ==
    /\ rules' = [i \in 1..Len(rules) |->
                   IF ~rules[i].deleted /\ rules[i].end_date < now - 1
                   THEN [rules[i] EXCEPT !.is_active = FALSE]
                   ELSE rules[i]]
    /\ rule_ret' = NoCall("deactivate_old_rules")
    /\ UNCHANGED <<now, schema, depVars, sortVars, pkVars, callVars, cmpVars, fieldVars>>

\* A minute passes.
Tick ==
    /\ now < MaxTime
    /\ now' = now + 1
    /\ UNCHANGED <<rules, rule_ret, schema, depVars, sortVars, pkVars, callVars, cmpVars, fieldVars>>

NextRules ==
    \/ UpdateOrCreate
    \/ Deactivate
    \/ DeactivateOldRules
    \/ Tick

----------------------------------------------------------------------------
\* The relations of one model: lines 303..392

\* Largest number of fields of the model whose relations are built.
MaxFields == 2

\* Strings are sequences of tokens: a letter, "_", ".", or an app label.
LowerChar(c) ==
    CASE c = "A" -> "a"
      [] c = "K" -> "k"
      [] c = "S" -> "s"
      [] c = "T" -> "t"
      [] OTHER -> c

\* str.lower()
Lower(s) == [i \in 1..Len(s) |-> LowerChar(s[i])]

\* str.endswith(suffix)
EndsWith(s, suffix) ==
    /\ Len(s) >= Len(suffix)
    /\ SubSeq(s, Len(s) - Len(suffix) + 1, Len(s)) = suffix

\* s.replace(c, "")
Without(s, c) == SelectSeq(s, LAMBDA x : x # c)

\* Lines 25..28: the string a NormalizedModelName holds; the input has a ".".
NormalizedModelName(model_name) == Lower(model_name)

\* The models of the registry: three of the app sentry and one of an excluded app.
NoModel == "None"
ActorModel == "Actor"
TeamModel == "Team"
ApiKeyModel == "ApiKey"
SessionModel == "Session"
RegistryModels == {ActorModel, TeamModel, ApiKeyModel, SessionModel}

\* model._meta.app_label and model._meta.object_name
AppLabel(model) == IF model = SessionModel THEN "sessions" ELSE "sentry"
ObjectName(model) ==
    CASE model = ActorModel -> <<"A", "c", "t", "o", "r">>
      [] model = TeamModel -> <<"T", "e", "a", "m">>
      [] model = ApiKeyModel -> <<"A", "p", "i", "K", "e", "y">>
      [] model = SessionModel -> <<"S", "e", "s", "s", "i", "o", "n">>

\* Lines 150..151.
GetModelName(model) ==
    NormalizedModelName(<<AppLabel(model), ".">> \o ObjectName(model))

\* Lines 290..294: the models of every app, those of excluded apps too, by name.
ModelsFromNames ==
    [n \in {GetModelName(m) : m \in RegistryModels} |->
        CHOOSE m \in RegistryModels : GetModelName(m) = n]

\* The kinds of lines 83..105 and a ForeignField with its kind.
ForeignFieldOfKind(model, kind, nullable) ==
    [model |-> model, kind |-> kind, nullable |-> nullable]

\* The field classes the isinstance tests of lines 321..373 tell apart; a
\* OneToOneField is a ForeignKey, and the two wrappers are what they wrap.
ForeignKeys ==
    {"FlexibleForeignKey", "ForeignKey", "OneToOneCascadeDeletes", "OneToOneField"}
OneToOneFields == {"OneToOneCascadeDeletes", "OneToOneField"}
SimpleIntegerFields ==
    {"BoundedIntegerField", "BoundedBigIntegerField", "BoundedPositiveIntegerField"}

\* A field of a model: its name, its class, its null attribute, the model of its
\* remote_field (NoModel when it has none) and, for a HybridCloudForeignKey, its
\* foreign_model_name.
Field(name, type, null, rel, foreign_model_name) ==
    [name |-> name, type |-> type, null |-> null, rel |-> rel,
     foreign_model_name |-> foreign_model_name]

\* What the loops hand on: foreign_keys and the exception raised ("none": none).
Built(fk, err) == [foreign_keys |-> fk, err |-> err]

\* Lines 315 and 351: the field has a remote model and it is another model.
IsRelation(model, field) == field.rel # NoModel /\ field.rel # model

\* Lines 309..339.
RECURSIVE RelationFields(_, _, _)
RelationFields(model, fs, fk) ==
    IF fs = <<>> THEN Built(fk, "none")
    ELSE LET field == Head(fs) IN
         IF IsRelation(model, field)
         THEN IF model = ActorModel /\ field.rel = TeamModel
              THEN RelationFields(model, Tail(fs), fk)
              ELSE IF field.type = "FlexibleForeignKey"
              THEN RelationFields(model, Tail(fs),
                       DictSet(fk, field.name,
                           ForeignFieldOfKind(field.rel, "FlexibleForeignKey",
                                              field.null)))
              ELSE IF field.type \in ForeignKeys
              THEN RelationFields(model, Tail(fs),
                       DictSet(fk, field.name,
                           ForeignFieldOfKind(field.rel, "DefaultForeignKey",
                                              field.null)))
              ELSE RelationFields(model, Tail(fs), fk)
         ELSE IF field.type = "HybridCloudForeignKey"
         THEN LET n == NormalizedModelName(field.foreign_model_name) IN
              IF n \notin DOMAIN ModelsFromNames
              THEN Built(fk, "KeyError")
              ELSE RelationFields(model, Tail(fs),
                       DictSet(fk, field.name,
                           ForeignFieldOfKind(ModelsFromNames[n],
                                              "HybridCloudForeignKey", field.null)))
         ELSE RelationFields(model, Tail(fs), fk)

\* Lines 342..365; the RuntimeError of line 365 needs a OneToOneField that is none.
RECURSIVE OneToOneRelations(_, _, _)
OneToOneRelations(model, fs, fk) ==
    IF fs = <<>> THEN Built(fk, "none")
    ELSE LET field == Head(fs) IN
         IF field.type \in OneToOneFields /\ IsRelation(model, field)
         THEN OneToOneRelations(model, Tail(fs),
                  DictSet(fk, field.name,
                      ForeignFieldOfKind(field.rel,
                          IF field.type = "OneToOneCascadeDeletes"
                          THEN "OneToOneCascadeDeletes" ELSE "DefaultOneToOneField",
                          field.null)))
         ELSE OneToOneRelations(model, Tail(fs), fk)

ActorId == <<"a", "c", "t", "o", "r", "_", "i", "d">>

\* Line 385 without the test for "actor_id".
HasIdSuffix_ActorToo(name) == EndsWith(name, <<"_", "i", "d">>)

\* Line 385.
HasIdSuffix(name) == EndsWith(name, <<"_", "i", "d">>) /\ name # ActorId

\* Line 386: "sentry." + field.name[:-3].replace("_", "")
Candidate(name) ==
    NormalizedModelName(<<"sentry", ".">> \o Without(SubSeq(name, 1, Len(name) - 3), "_"))

\* Lines 368..392.
RECURSIVE ImplicitRelations(_, _)
ImplicitRelations(fs, fk) ==
    IF fs = <<>> THEN Built(fk, "none")
    ELSE LET field == Head(fs) IN
         IF /\ field.type \in SimpleIntegerFields
            /\ HasIdSuffix(field.name)
            /\ Candidate(field.name) \in DOMAIN ModelsFromNames
         THEN ImplicitRelations(Tail(fs),
                  DictSet(fk, field.name,
                      ForeignFieldOfKind(ModelsFromNames[Candidate(field.name)],
                                         "ImplicitForeignKey", field.null)))
         ELSE ImplicitRelations(Tail(fs), fk)

\* Lines 303..392 for one model: the three loops one after the other.
ForeignKeysOf(model, fs) ==
    LET first == RelationFields(model, fs, EmptyDict) IN
    IF first.err # "none" THEN first
    ELSE ImplicitRelations(fs, OneToOneRelations(model, fs, first.foreign_keys).foreign_keys)

\* Field names.
TeamName == <<"t", "e", "a", "m">>
TeamId == <<"t", "e", "a", "m", "_", "i", "d">>
TeamIdUpper == <<"T", "e", "a", "m", "_", "i", "d">>
TeamIdJoined == <<"t", "e", "a", "m", "i", "d">>
ApiKeyId == <<"a", "p", "i", "_", "k", "e", "y", "_", "i", "d">>
OwnerId == <<"o", "w", "n", "e", "r", "_", "i", "d">>

\* The fields a model of the bounded schemas may have.
FieldChoicesOfModel ==
    {Field(n, t, null, rel, <<>>) :
        n \in {TeamName, TeamIdJoined}, t \in ForeignKeys, null \in BOOLEAN,
        rel \in {ActorModel, TeamModel, SessionModel}}
    \cup {Field(n, "HybridCloudForeignKey", null, NoModel, <<"sentry", ".">> \o f) :
        n \in {TeamId, OwnerId}, null \in BOOLEAN,
        f \in {ObjectName(TeamModel), ObjectName(ActorModel), <<"n", "o">>}}
    \cup {Field(n, t, null, NoModel, <<>>) :
        n \in {TeamId, TeamIdUpper, TeamIdJoined, ApiKeyId, OwnerId, ActorId},
        t \in SimpleIntegerFields, null \in BOOLEAN}
    \cup {Field(n, "CharField", null, NoModel, <<>>) :
        n \in {TeamId}, null \in BOOLEAN}

\* No relations built yet.
NotBuilt == Built(EmptyDict, "not built")

InitFields ==
    /\ building = NoModel
    /\ fields = <<>>
    /\ relations = NotBuilt

\* The body of the loop of line 302 for the model "building".
BuildRelations ==
    /\ relations = NotBuilt
    /\ relations' = ForeignKeysOf(building, fields)
    /\ UNCHANGED <<building, fields>>
    /\ UNCHANGED <<schema, depVars, sortVars, pkVars, callVars, cmpVars, ruleVars>>

NextFields == BuildRelations

----------------------------------------------------------------------------
\* The general specification: every schema of NumModels models, one or two of them
\* roots, with at most MaxFKs foreign keys, in every registry order.

Models == 1..NumModels

FieldChoices ==
    [src : Models, model : Models \cup {ExcludedModel, UnknownModel}, nullable : BOOLEAN]

\* The foreign keys of model m among the fields fs, in field order.
RECURSIVE FieldsOf(_, _)
FieldsOf(fs, m) ==
    IF fs = <<>> THEN <<>>
    ELSE (IF fs[1].src = m THEN <<ForeignField(fs[1].model, fs[1].nullable)>> ELSE <<>>)
         \o FieldsOf(Tail(fs), m)

InitRun ==
    /\ dangling = <<>>
    /\ pc = "idle"
    /\ idx = 1
    /\ dep_error = NoError
    /\ sort_pc = "idle"
    /\ working = <<>>
    /\ model_list = <<>>
    /\ sort_error = <<>>
    /\ got = [op |-> "init", name |-> ExcludedModel, ret |-> <<>>]

Init ==
    /\ model_order \in Orders(Models)
    /\ roots \in {{1}, {1, 2}}
    /\ \E k \in 0..MaxFKs : \E fs \in [1..k -> FieldChoices] :
         foreign_keys = [m \in Models |-> FieldsOf(fs, m)]
    /\ InitRun
    /\ InitPk
    /\ InitCalls
    /\ InitCompared
    /\ InitRules
    /\ InitFields

Next ==
    \/ DepStart
    \/ DepResolve
    \/ DepReturn
    \/ SortStart
    \/ SortPass
    \/ SortReturn
    \/ GetModel

Spec == Init /\ [][Next]_vars

----------------------------------------------------------------------------
\* The end-to-end schema: Org (root), Team, Project, Webhook, named in ascending
\* name order, in every registry order and both field orders of Project.

ScenarioNames == <<"sentry.org", "sentry.project", "sentry.team", "sentry.webhook">>

Rank(name) == CHOOSE i \in 1..Len(ScenarioNames) : ScenarioNames[i] = name

Org == Rank("sentry.org")
Project == Rank("sentry.project")
Team == Rank("sentry.team")
Webhook == Rank("sentry.webhook")

ScenarioForeignKeys(project_fields) ==
    [m \in 1..Len(ScenarioNames) |->
        CASE m = Org -> <<>>
          [] m = Team -> <<ForeignField(Org, FALSE)>>
          [] m = Project -> project_fields
          [] m = Webhook -> <<ForeignField(Project, TRUE)>>]

InitScenario ==
    /\ model_order \in Orders(1..Len(ScenarioNames))
    /\ roots = {Org}
    /\ \E project_fields \in Orders({ForeignField(Team, FALSE), ForeignField(Org, TRUE)}) :
         foreign_keys = ScenarioForeignKeys(project_fields)
    /\ InitRun
    /\ InitPk
    /\ InitCalls
    /\ InitCompared
    /\ InitRules
    /\ InitFields

SpecScenario == InitScenario /\ [][Next]_vars

----------------------------------------------------------------------------
\* One PrimaryKeyMap instance, from its construction, under any calls.

InitMap ==
    /\ model_order = <<>>
    /\ foreign_keys = <<>>
    /\ roots = {}
    /\ InitRun
    /\ InitPk
    /\ InitCalls
    /\ InitCompared
    /\ InitRules
    /\ InitFields

SpecPk == InitMap /\ [][NextPk]_vars

----------------------------------------------------------------------------
\* Threads calling dependencies() in a process that has called it in no thread yet.

InitThreads ==
    /\ model_order = <<>>
    /\ foreign_keys = <<>>
    /\ roots = {}
    /\ InitRun
    /\ InitPk
    /\ InitCalls
    /\ InitCompared
    /\ InitRules
    /\ InitFields

SpecCalls == InitThreads /\ [][NextCalls]_vars

----------------------------------------------------------------------------
\* Comparisons of NormalizedModelName values.

InitNames ==
    /\ model_order = <<>>
    /\ foreign_keys = <<>>
    /\ roots = {}
    /\ InitRun
    /\ InitPk
    /\ InitCalls
    /\ InitCompared
    /\ InitRules
    /\ InitFields

SpecCompare == InitNames /\ [][NextCompare]_vars

----------------------------------------------------------------------------
\* The custom dynamic sampling rules of two organizations, from an empty table.

InitTable ==
    /\ model_order = <<>>
    /\ foreign_keys = <<>>
    /\ roots = {}
    /\ InitRun
    /\ InitPk
    /\ InitCalls
    /\ InitCompared
    /\ InitRules
    /\ InitFields

SpecRules == InitTable /\ [][NextRules]_vars

----------------------------------------------------------------------------
\* The relations of one model: Actor or Team, with up to MaxFields fields of
\* different names, in every field order.

InitModel ==
    /\ model_order = <<>>
    /\ foreign_keys = <<>>
    /\ roots = {}
    /\ InitRun
    /\ InitPk
    /\ InitCalls
    /\ InitCompared
    /\ InitRules
    /\ building \in {ActorModel, TeamModel}
    /\ \E k \in 0..MaxFields : \E fs \in [1..k -> FieldChoicesOfModel] :
          /\ \A i, j \in 1..k : i # j => fs[i].name # fs[j].name
          /\ fields = fs
    /\ relations = NotBuilt

SpecFields == InitModel /\ [][NextFields]_vars

----------------------------------------------------------------------------
\* Properties

\* The foreign keys of model a.
Edges(a) == Range(foreign_keys[a])

\* b occurs in s, a occurs in s, and every occurrence of b is before every one of a.
Before(s, b, a) ==
    /\ b \in Range(s)
    /\ a \in Range(s)
    /\ \A i, j \in 1..Len(s) : (s[i] = b /\ s[j] = a) => i < j

\* C1: whenever sorted_dependencies returns, for every edge A -> B of the graph with
\* A # B and both nodes of the graph, nullable or not, B is at a strictly earlier
\* position than A in the returned sequence.
C1_DependenciesFirst ==
    sort_pc = "done" =>
        \A a \in Nodes : \A ff \in Edges(a) :
            (ff.model \in Nodes /\ ff.model # a) => Before(model_list, ff.model, a)

\* A returned sequence of a graph with a nullable edge and a non-nullable edge between
\* different nodes, from different sources.
C1_Witness ==
    /\ sort_pc = "done"
    /\ \E a, b \in Nodes : \E fa \in Edges(a), fb \in Edges(b) :
          /\ a # b
          /\ fa.nullable /\ fa.model \in Nodes \ {a}
          /\ ~fb.nullable /\ fb.model \in Nodes \ {b}

\* C2: whenever sorted_dependencies returns, the returned sequence holds every node of
\* the graph exactly once and nothing else.
C2_EveryNodeOnce ==
    sort_pc = "done" =>
        /\ Range(model_list) = Nodes
        /\ Len(model_list) = Cardinality(Nodes)

\* A returned sequence of a graph two of whose nodes refer to the excluded model and
\* one of whose nodes is promoted in a later pass than another.
C2_Witness ==
    /\ sort_pc = "done"
    /\ \E a, b \in Nodes : a # b /\ ExcludedModel \in Flatten(a) \cap Flatten(b)
    /\ \E a \in Nodes : Flatten(a) \cap (Nodes \ {a}) # {}

\* The nodes with a chain of one or more non-nullable edges ending at a node of S.
RECURSIVE Anchored(_)
Anchored(S) ==
    LET T == S \cup {m \in Nodes : \E ff \in Edges(m) : ~ff.nullable /\ ff.model \in S}
    IN IF T = S THEN S ELSE Anchored(T)

\* C3: after a successful build a non-root model is non-dangling if and only if a chain
\* of one or more non-nullable edges leads from it to a root; otherwise it is dangling.
C3_DanglingIffNoChain ==
    pc = "done" =>
        \A m \in Nodes \ roots :
            /\ dangling[m] \in {"True", "False"}
            /\ dangling[m] = "False" <=> m \in Anchored(roots)

\* A built graph with a non-root model anchored only through another non-root model,
\* and with a nullable edge from it straight to the root.
C3_Witness ==
    /\ pc = "done"
    /\ \E m, u \in Nodes \ roots : \E r \in roots :
          /\ m # u
          /\ Edges(m) = {ForeignField(u, FALSE), ForeignField(r, TRUE)}
          /\ Edges(u) = {ForeignField(r, FALSE)}
          /\ dangling[m] = "False"

\* C4: after a successful build every root has dangling = False, whatever its own edges.
C4_RootsNotDangling ==
    pc = "done" => \A r \in roots : dangling[r] = "False"

\* A built graph with a root that has a non-nullable edge to a dangling model.
C4_Witness ==
    /\ pc = "done"
    /\ \E r \in roots : \E ff \in Edges(r) :
          /\ ~ff.nullable
          /\ ff.model \in Nodes \ roots
          /\ dangling[ff.model] = "True"

\* The targets of the non-nullable foreign keys of model m.
NonNullTargets(m) == {ff.model : ff \in {f \in Edges(m) : ~f.nullable}}

\* The one of x and y that the registry enumerates first.
FirstOf(x, y) == IF IndexOf(model_order, x) < IndexOf(model_order, y) THEN x ELSE y

\* C5: in a schema all of whose targets resolve and whose non-root models are X and
\* Y, X's non-nullable edges going to Y and Y's to X, the build never returns: it raises the circular-dependency error,
\* naming the model it reached while that model was in progress (the one of X and Y
\* whose resolution began first), and no flag of an in-progress model is returned.
C5_CycleRaises ==
    \A x, y \in Nodes \ roots :
        (/\ x # y
         /\ Nodes \ roots = {x, y}
         /\ NonNullTargets(x) = {y}
         /\ NonNullTargets(y) = {x}
         /\ ~Unresolvable)
        => /\ pc # "done"
           /\ pc = "resolve" => idx <= IndexOf(model_order, FirstOf(x, y))
           /\ pc = "error" => dep_error = [kind |-> "CircularDependency",
                                           model |-> FirstOf(x, y)]

\* The cycle error raised for X -> Y -> X, after the root was passed over.
C5_Witness ==
    /\ pc = "error"
    /\ dep_error.kind = "CircularDependency"
    /\ idx > 1
    /\ \E x, y \in Nodes \ roots :
          /\ x # y
          /\ Edges(x) = {ForeignField(y, FALSE)}
          /\ Edges(y) = {ForeignField(x, FALSE)}

\* s is strictly ascending in name order.
Ascending(s) == \A i, j \in 1..Len(s) : i < j => s[i] < s[j]

\* Models p # q with a nullable edge each way.
NullableTwoCycle(p, q) ==
    /\ p # q
    /\ ForeignField(q, TRUE) \in Edges(p)
    /\ ForeignField(p, TRUE) \in Edges(q)

\* C6: a pass of the sorter over a non-empty working list that promotes no model ends
\* in the cycle error, which names every model of the working list in ascending name
\* order, and a pass that promotes one does not; P -> Q -> P by nullable edges is
\* never sorted, and the error raised for it names P and Q.
C6_StuckPassRaises ==
    [][(sort_pc = "loop" /\ working # <<>>) =>
         /\ IF model_list' = model_list
            THEN /\ sort_pc' = "error"
                 /\ Range(sort_error') = Range(working)
                 /\ Len(sort_error') = Len(working)
                 /\ Ascending(sort_error')
            ELSE sort_pc' = "loop"
         /\ \A p, q \in Nodes : NullableTwoCycle(p, q) =>
               /\ Len(working') >= 2 \/ sort_pc' = "error"
               /\ sort_pc' = "error" => {p, q} \subseteq Range(sort_error')
      ]_vars

\* The error raised in the first pass for a nullable P -> Q -> P and a third model
\* that refers to P only, in a registry that does not enumerate in name order.
C6_Witness ==
    /\ sort_pc = "error"
    /\ model_list = <<>>
    /\ Len(sort_error) = 3
    /\ model_order # sort_error
    /\ \E p, q \in Nodes : /\ NullableTwoCycle(p, q)
                           /\ \E r \in Nodes \ {p, q} : Flatten(r) = {p}

\* C7: for Org (root), Team -> Org, Project -> Team and (nullable) Org, Webhook ->
\* (nullable) Project, in every registry order: nothing raises, the built graph has
\* Org, Team and Project non-dangling and Webhook dangling, and the sorted order is
\* Org, Team, Project, Webhook.
C7_EndToEnd ==
    /\ pc # "error"
    /\ sort_pc # "error"
    /\ pc = "done" => /\ dangling[Org] = "False"
                      /\ dangling[Team] = "False"
                      /\ dangling[Project] = "False"
                      /\ dangling[Webhook] = "True"
    /\ sort_pc = "done" => model_list = <<Org, Team, Project, Webhook>>

\* The sorted order returned for the registry that enumerates Webhook, Project, Team,
\* Org, with Project's nullable field first.
C7_Witness ==
    /\ sort_pc = "done"
    /\ pc = "done"
    /\ model_order = <<Webhook, Project, Team, Org>>
    /\ foreign_keys[Project] = <<ForeignField(Org, TRUE), ForeignField(Team, FALSE)>>
    /\ dangling[Webhook] = "True"
    /\ model_list = <<Org, Team, Project, Webhook>>

\* The positions in the log of the inserts for (name, old).
Inserts(name, old) == {i \in 1..Len(log) : log[i].model = name /\ log[i].old = old}

\* The most recent insert for (name, old).
LastInsert(name, old) ==
    log[CHOOSE i \in Inserts(name, old) : \A j \in Inserts(name, old) : j <= i]

\* C8: insert is last-writer-wins per (model, old pk): get_pk and get_kind return the
\* new pk and the kind of the most recent insert for the pair they are asked about;
\* insert does not raise.
C8_LastWriterWins ==
    /\ pk_ret.op = "insert" =>
          /\ ~pk_ret.raised
          /\ Lookup(mapping, pk_ret.model, pk_ret.old, 1).ret
                = Some(LastInsert(pk_ret.model, pk_ret.old).new)
    /\ (pk_ret.op = "get_pk" /\ Inserts(pk_ret.model, pk_ret.old) # {}) =>
          pk_ret.ret = Some(LastInsert(pk_ret.model, pk_ret.old).new)
    /\ (pk_ret.op = "get_kind" /\ Inserts(pk_ret.model, pk_ret.old) # {}) =>
          pk_ret.ret = Some(LastInsert(pk_ret.model, pk_ret.old).kind)

\* insert(T, 5, 105, Inserted), insert(T, 5, 999, Overwrite), then get_kind(T, 5)
\* returns Overwrite while get_pk(T, 5) would return 999.
C8_Witness ==
    /\ Len(log) = 2
    /\ log[1] = [model |-> 1, old |-> 5, new |-> 105, kind |-> "Inserted"]
    /\ log[2] = [model |-> 1, old |-> 5, new |-> 999, kind |-> "Overwrite"]
    /\ pk_ret.op = "get_kind"
    /\ pk_ret.model = 1
    /\ pk_ret.old = 5
    /\ pk_ret.ret = Some("Overwrite")
    /\ Lookup(mapping, 1, 5, 1).ret = Some(999)

\* The new pks that the old pks of model name are mapped to by their latest inserts.
MappedNewPks(name) ==
    {LastInsert(name, old).new : old \in {o \in OldPks : Inserts(name, o) # {}}}

\* C9: get_pks(T) returns exactly the set of new pks that some old pk of T is
\* currently mapped to (the empty set when T was never inserted into).
C9_GetPksReturnsNewPks ==
    pk_ret.op = "get_pks" => pk_ret.ret = MappedNewPks(pk_ret.model)

\* C10: get_pk(T, k) and get_kind(T, k) never raise, and return None exactly when no
\* insert for (T, k) was made on this map.
C10_MissIsNone ==
    pk_ret.op \in {"get_pk", "get_kind"} =>
        /\ ~pk_ret.raised
        /\ pk_ret.ret = None <=> Inserts(pk_ret.model, pk_ret.old) = {}

\* get_pk(T, k) returning None for a model that has a mapping for another old pk only,
\* while another model is not in the mapping at all.
C10_Witness ==
    /\ pk_ret.op = "get_pk"
    /\ pk_ret.ret = None
    /\ pk_ret.model \in DOMAIN mapping
    /\ DOMAIN mapping[pk_ret.model] = OldPks \ {pk_ret.old}
    /\ DOMAIN mapping # PkModels

\* C11: the models one pass of the sorter promotes are appended to the returned
\* sequence in ascending name order (so the sequence is the same for every order in
\* which the registry enumerates the models).
C11_SamePassAscending ==
    [][(sort_pc = "loop" /\ working # <<>>) =>
         Ascending(SubSeq(model_list', Len(model_list) + 1, Len(model_list')))
      ]_vars

\* C12: when several threads call dependencies() before any call has completed, the
\* body runs at most once and every call returns the same object.
C12_SingleFlight ==
    /\ builds <= 1
    /\ \A t, u \in Threads :
          (calls[t].pc = "returned" /\ calls[u].pc = "returned")
              => calls[t].obj = calls[u].obj

\* C13: once dependencies() has returned, no step re-runs it or changes the registry,
\* an edge or a flag of the graph it returned; once sorted_dependencies() has returned,
\* no step re-runs it or changes the sequence it returned, and a later get_model call
\* is answered from that sequence (the model asked for when it is a node, else None).
C13_BuiltOnce ==
    [][/\ pc = "done" =>
            /\ pc' = "done"
            /\ dangling' = dangling
            /\ schema' = schema
       /\ sort_pc = "done" =>
            /\ sort_pc' = "done"
            /\ model_list' = model_list
            /\ got' # got =>
                  got'.ret = IF got'.name \in Nodes THEN <<got'.name>> ELSE <<>>
      ]_vars

\* A get_model call made after sorted_dependencies() returned a sequence that is not
\* the registry's order: it found its model, one that refers to another node.
C13_Witness ==
    /\ pc = "done"
    /\ sort_pc = "done"
    /\ model_list # model_order
    /\ got.op = "get_model"
    /\ got.ret = <<got.name>>
    /\ Flatten(got.name) \cap (Nodes \ {got.name}) # {}

\* C14: a build of a schema with a field whose target names no model raises; a build
\* that raised (that error, or the classifier's cycle error) has cached nothing, so no
\* sequence was ever sorted from it and no get_model call answered; and the next
\* call starts over from freshly seeded flags instead of the ones the failed build
\* had set.
C14_FailedBuildLeavesNothing ==
    [][/\ (\E m \in Nodes : UnknownModel \in Flatten(m)) =>
            /\ pc' = "error"
            /\ dep_error'.kind = "KeyError"
       /\ pc' = "error" =>
            /\ dep_error'.kind \in {"KeyError", "CircularDependency"}
            /\ sort_pc' = "idle"
            /\ got'.op = "init"
       /\ (pc = "error" /\ pc' # "error") =>
            /\ pc' = "resolve"
            /\ idx' = 1
            /\ dangling' = [m \in Nodes |-> IF m \in roots THEN "False" ELSE "None"]
      ]_vars

\* The cycle error raised when one non-root model was already classified dangling and
\* another was marked in progress.
C14_Witness ==
    /\ pc = "error"
    /\ dep_error.kind = "CircularDependency"
    /\ \E m, n \in Nodes \ roots :
          /\ m # n
          /\ idx > IndexOf(model_order, m)
          /\ dangling[m] = "True"
          /\ dangling[n] = "True"
          /\ n = model_order[idx]

\* C15, as stated: a comparison of a NormalizedModelName, by == or by <, with a value
\* that is no NormalizedModelName (None included) raises.
C15_ForeignValueRaises ==
    (compared.op \in {"eq", "lt"} /\ compared.other.type # "NormalizedModelName")
        => compared.raised

\* C15, amended: a comparison of a NormalizedModelName, by == or by <, with a value
\* that is no NormalizedModelName raises TypeError, except == with None, which
\* returns False.
C15_ForeignValueRaisesButEqNone ==
    (compared.op \in {"eq", "lt"} /\ compared.other.type # "NormalizedModelName")
        => IF compared.op = "eq" /\ compared.other.type = "NoneType"
           THEN ~compared.raised /\ compared.ret = FALSE
           ELSE compared.raised

\* A name compared with None by ==: False was returned.
C15_Witness ==
    /\ compared.op = "eq"
    /\ compared.self.type = "NormalizedModelName"
    /\ compared.other.type = "NoneType"
    /\ ~compared.raised
    /\ compared.ret = FALSE

\* The rules of organization org that are active and unexpired at time t.
ActiveRules(table, org, t) ==
    {i \in 1..Len(table) :
        /\ ~table[i].deleted
        /\ table[i].organization_id = org
        /\ table[i].is_active
        /\ table[i].end_date > t}

\* C16: an update_or_create call for an organization that has an active, unexpired
\* rule with the condition asked for adds no row and changes no other row: it returns
\* that rule, whose end_date becomes the larger of its end_date and the end asked for,
\* and whose projects, when the rule is project-level and project_ids is not empty,
\* become its projects together with the ones asked for.
C16_UpdatesExistingRule ==
    [][LET q == rule_ret'
           existing == {i \in ActiveRules(rules, q.organization_id, now) :
                           rules[i].condition = q.condition}
       IN (/\ q.op = "update_or_create"
           /\ <<rules, rule_ret>>' # <<rules, rule_ret>>
           /\ existing # {})
          => /\ ~q.raised
             /\ Len(rules') = Len(rules)
             /\ q.id \in existing
             /\ rules'[q.id].end_date
                   = IF q.end > rules[q.id].end_date THEN q.end
                     ELSE rules[q.id].end_date
             /\ (~rules[q.id].is_org_level /\ q.project_ids # {}) =>
                   rules'[q.id].projects = rules[q.id].projects \cup q.project_ids
             /\ \A i \in 1..Len(rules) : i # q.id => rules'[i] = rules[i]
      ]_vars

\* A second call for the same condition returned the first rule of the table, which
\* now has both projects and kept its later end date, while the other organization
\* has a rule of its own.
C16_Witness ==
    /\ rule_ret.op = "update_or_create"
    /\ rule_ret.id = 1
    /\ rule_ret.project_ids = {2}
    /\ rule_ret.end = 1
    /\ Len(rules) = 2
    /\ rules[1].projects = {1, 2}
    /\ rules[1].end_date = 2
    /\ rules[2].organization_id # rules[1].organization_id

\* C17: a created rule gets the smallest positive rule_id that no active, unexpired
\* rule of its organization holds, so the rule_id of a deactivated or expired rule is
\* free again (the new rule_id is never larger than it); and at any time the active,
\* unexpired rules of one organization have different rule_ids.
C17_SmallestFreeRuleId ==
    [][/\ Len(rules') = Len(rules) + 1 =>
            LET new == rules'[Len(rules')]
                held == {rules[i].rule_id :
                           i \in ActiveRules(rules, new.organization_id, now')}
            IN /\ new.rule_id >= 1
               /\ new.rule_id \notin held
               /\ \A k \in 1..(new.rule_id - 1) : k \in held
               /\ \A i \in 1..Len(rules) :
                     (/\ rules[i].organization_id = new.organization_id
                      /\ rules[i].rule_id \notin held)
                     => new.rule_id <= rules[i].rule_id
       /\ \A i, j \in 1..Len(rules') :
            (/\ i # j
             /\ rules'[i].organization_id = rules'[j].organization_id
             /\ i \in ActiveRules(rules', rules'[i].organization_id, now')
             /\ j \in ActiveRules(rules', rules'[i].organization_id, now'))
            => rules'[i].rule_id # rules'[j].rule_id
      ]_vars

\* Three rules of one organization: the first was deactivated before it expired while
\* the second, with rule_id 2, was active, and the third got the first one's rule_id.
C17_Witness ==
    /\ Len(rules) = 3
    /\ \A i \in 1..3 : rules[i].organization_id = 1
    /\ ~rules[1].is_active
    /\ rules[1].end_date > now
    /\ rules[1].rule_id = 1
    /\ rules[2].rule_id = 2
    /\ rules[3].rule_id = 1
    /\ {2, 3} \subseteq ActiveRules(rules, 1, now)

\* resolve_dangling, lines 419..447, run on the foreign keys fks instead of the ones
\* of the state: what the same code does when a model's fields come in another order.
RECURSIVE ResolveDanglingOn(_, _, _, _)
RECURSIVE ResolveForeignKeysOn(_, _, _, _, _)

\* Lines 437..447 on fks.
ResolveForeignKeysOn(fks, d, seen, model_name, i) ==
    IF i > Len(fks[model_name])
    THEN [d |-> d, ret |-> d[model_name], err |-> NoError]
    ELSE LET ff == fks[model_name][i] IN
         IF ff.nullable
         THEN ResolveForeignKeysOn(fks, d, seen, model_name, i + 1)
         ELSE LET r == ResolveDanglingOn(fks, d, seen, ff.model) IN
              IF r.err.kind # "none" THEN r
              ELSE IF r.ret = "False"
              THEN [d |-> [r.d EXCEPT ![model_name] = "False"], ret |-> "False",
                    err |-> NoError]
              ELSE ResolveForeignKeysOn(fks, r.d, seen, model_name, i + 1)

\* Lines 419..436 on fks.
ResolveDanglingOn(fks, d, seen, model_name) ==
    IF model_name \notin DOMAIN d
    THEN [d |-> d, ret |-> "None", err |-> [kind |-> "KeyError", model |-> model_name]]
    ELSE IF model_name \in seen
    THEN [d |-> d, ret |-> "None",
          err |-> [kind |-> "CircularDependency", model |-> model_name]]
    ELSE IF d[model_name] # "None"
    THEN [d |-> d, ret |-> d[model_name], err |-> NoError]
    ELSE ResolveForeignKeysOn(fks, [d EXCEPT ![model_name] = "True"],
                              seen \cup {model_name}, model_name, 1)

\* What the classifier ends with: the exception it raised ("none" when it returned)
\* and, when it returned, the flags.
Outcome(kind, flags) == [kind |-> kind, dangling |-> flags]

\* Lines 449..451 from position i of the keys taken in the order given, on fks.
RECURSIVE ClassifyFrom(_, _, _, _)
ClassifyFrom(order, fks, d, i) ==
    IF i > Len(order) THEN Outcome("none", d)
    ELSE IF order[i] \in roots THEN ClassifyFrom(order, fks, d, i + 1)
    ELSE LET r == ResolveDanglingOn(fks, d, {}, order[i]) IN
         IF r.err.kind # "none" THEN Outcome(r.err.kind, <<>>)
         ELSE ClassifyFrom(order, fks, r.d, i + 1)

\* Lines 394..451 for the keys in the order given, on fks.
Classify(order, fks) == ClassifyFrom(order, fks, SeedRoots, 1)

\* The orders the items of s can come in.
Shuffles(s) == {[i \in 1..Len(s) |-> s[p[i]]] : p \in Orders(1..Len(s))}

\* The foreign keys of the state with each model's fields in any order.
FieldOrders ==
    {fks \in [1..Len(foreign_keys) -> UNION {Shuffles(foreign_keys[m]) : m \in Nodes}] :
        \A m \in Nodes : fks[m] \in Shuffles(foreign_keys[m])}

\* What the classifier of this run ended with.
RunOutcome == Outcome(dep_error.kind, IF pc = "done" THEN dangling ELSE <<>>)

\* The run of the state ended as Classify says, for the order and fields of the state.
ClassifyIsTheRun ==
    pc \in {"done", "error"} /\ ~Unresolvable =>
        RunOutcome = Classify(model_order, foreign_keys)

\* C18: for a graph all of whose edges lead to nodes, what the classifier ends with
\* (the cycle error, or the flag of every node) is the same for every order the models
\* are visited in and every order each model's fields are iterated in.
C18_OrderIndependent ==
    (pc \in {"done", "error"} /\ \A m \in Nodes : Flatten(m) \subseteq Nodes) =>
        \A order \in Orders(Nodes) : \A fks \in FieldOrders :
            Classify(order, fks) = RunOutcome

\* The nodes other than m that m has an edge to: a non-nullable one, any one.
OtherNonNullTargets(m) == (NonNullTargets(m) \cap Nodes) \ {m}
OtherTargets(m) == (Flatten(m) \cap Nodes) \ {m}

\* The nodes reached from the nodes of S by edges that are no self-edges: by
\* non-nullable ones, by any.
RECURSIVE NonNullReach(_)
NonNullReach(S) ==
    LET T == S \cup UNION {OtherNonNullTargets(m) : m \in S}
    IN IF T = S THEN S ELSE NonNullReach(T)

RECURSIVE Reach(_)
Reach(S) ==
    LET T == S \cup UNION {OtherTargets(m) : m \in S}
    IN IF T = S THEN S ELSE Reach(T)

\* C19: a non-nullable self-edge never makes the classifier raise the cycle error:
\* when it is raised, some model is on a cycle of non-nullable edges between
\* different models.
C19_SelfEdgeNeverRaises ==
    (pc = "error" /\ dep_error.kind = "CircularDependency") =>
        \E m \in Nodes : m \in NonNullReach(OtherNonNullTargets(m))

\* C20: a self-edge never makes the sorter raise the cycle error: when it is raised,
\* some model is on a cycle of edges between different models.
C20_SelfEdgeSorts ==
    sort_pc = "error" => \E m \in Nodes : m \in Reach(OtherTargets(m))


\* C29: after dependencies() has returned successfully no node of the graph has an
\* unset dangling flag: every root and every non-root model carries True or False.
C29_NoUnsetFlag ==
    pc = "done" =>
        /\ DOMAIN dangling = Nodes
        /\ \A m \in Nodes : dangling[m] # "None" /\ dangling[m] \in {"True", "False"}

\* A built graph with a root that no model refers to and that no top-level resolution
\* visits, and a non-root model without any edge.
C29_Witness ==
    /\ pc = "done"
    /\ \E r \in roots : \A m \in Nodes : r \notin Flatten(m)
    /\ \E m \in Nodes \ roots : foreign_keys[m] = <<>>
    /\ \A m \in Nodes : dangling[m] \in {"True", "False"}



\* C30: a non-nullable edge to the excluded model (known to the registry, no node of
\* the graph) does not make the classifier fail: the build never ends with the
\* KeyError of a lookup of the excluded model in the graph.
C30_ExcludedTargetClassified ==
    ~(/\ pc = "error"
      /\ dep_error.kind = "KeyError"
      /\ dep_error.model = ExcludedModel)



\* No node has an edge to itself.
NoSelfEdges == \A m \in Nodes : m \notin Flatten(m)

\* Some node reaches itself by one or more edges between nodes.
HasCycle == \E m \in Nodes : m \in Reach(OtherTargets(m))

\* C23: on a graph without self-edges, in whatever order the registry enumerates the
\* nodes, sorted_dependencies raises its error only if the edges between nodes hold a
\* directed cycle and returns a sequence only if they hold none.
C23_RaisesIffCycle ==
    NoSelfEdges =>
        /\ sort_pc = "error" => HasCycle
        /\ sort_pc = "done" => ~HasCycle

\* The error raised on a graph without self-edges whose three nodes form one cycle.
C23_Witness ==
    /\ sort_pc = "error"
    /\ NoSelfEdges
    /\ \E a, b, c \in Nodes :
          /\ a # b /\ b # c /\ a # c
          /\ Flatten(a) = {b} /\ Flatten(b) = {c} /\ Flatten(c) = {a}



\* A step of the sorter's loop that neither raises nor leaves the loop's lists alone.
PassDone ==
    /\ sort_pc = "loop"
    /\ sort_pc' = "loop"
    /\ <<working, model_list>>' # <<working, model_list>>

\* C24: the sorter terminates. It starts with the |V| nodes in its working list, every
\* pass that does not raise leaves a strictly shorter working list and moves the rest
\* to the output, and while it runs it can always make a pass or return: after at most
\* |V| passes it has returned or raised.
C24_SorterTerminates ==
    /\ [](sort_pc = "loop" => /\ Len(working) <= Cardinality(Nodes)
                              /\ ENABLED (SortPass \/ SortReturn))
    /\ [][PassDone => /\ Len(working') < Len(working)
                      /\ Len(working') + Len(model_list') = Cardinality(Nodes)]_vars

\* The sorter after its second pass on a chain a -> b -> c of three nodes without any
\* other edge: the first pass promoted c only, the second b only, a is still to come.
C24_Witness ==
    /\ sort_pc = "loop"
    /\ \E a, b, c \in Nodes :
          /\ Flatten(a) = {b} /\ Flatten(b) = {c} /\ Flatten(c) = {}
          /\ model_list = <<c, b>>
          /\ working = <<a>>


\* A pass of the sorter: a step of its loop that changes the working list or raises.
PassMade ==
    /\ sort_pc = "loop"
    /\ <<sort_pc, working>>' # <<sort_pc, working>>

\* C25: in the sorter a dependency on a model that is no node of the graph counts as
\* satisfied. A pass promotes every model of the working list whose dependencies
\* among the nodes were all in the output before the pass, whatever else it depends
\* on, and the error of a pass names only models with a dependency among the nodes
\* that is not in the output.
C25_ExcludedIsSatisfied ==
    [][PassMade =>
        /\ \A m \in Range(working) :
              (Flatten(m) \cap Nodes) \subseteq Range(model_list)
                  => m \in Range(model_list')
        /\ sort_pc' = "error" =>
              \A m \in Range(sort_error') :
                  \E d \in Flatten(m) \cap Nodes : d \notin Range(model_list')]_vars

\* The sorter after a first pass that promoted a model whose only dependency is the
\* excluded model and skipped another model.
C25_Witness ==
    /\ sort_pc = "loop"
    /\ working # <<>>
    /\ \E m \in Range(model_list) : Flatten(m) = {ExcludedModel}



\* C26: a dangling flag is computed once. While the build resolves, a flag that is set
\* keeps its value through every later resolution, the flag of the model a top-level
\* resolution was made for is the value that resolution returned, and once the
\* build has returned no step changes a flag.
C26_FlagsComputedOnce ==
    [][/\ pc = "resolve" =>
            /\ \A m \in Nodes : dangling[m] # "None" => dangling'[m] = dangling[m]
            /\ (idx' = idx + 1 /\ model_order[idx] \notin roots) =>
                  dangling'[model_order[idx]] =
                      ResolveDangling(dangling, {}, model_order[idx]).ret
       /\ pc = "done" => dangling' = dangling]_vars

\* A build in which the resolution of model a resolved model b on the way and the
\* loop has since come to b itself and found its flag set.
C26_Witness ==
    /\ pc = "resolve"
    /\ \E a, b \in Nodes \ roots :
          /\ IndexOf(model_order, a) < IndexOf(model_order, b)
          /\ IndexOf(model_order, b) < idx
          /\ ForeignField(b, FALSE) \in Edges(a)
          /\ \E r \in roots : ForeignField(r, FALSE) \in Edges(b)
          /\ dangling[a] = "False" /\ dangling[b] = "False"



\* The step is an insert call for the pair (name, old).
InsertFor(name, old) ==
    /\ Len(log') = Len(log) + 1
    /\ log'[Len(log')].model = name
    /\ log'[Len(log')].old = old

\* C28: in a PrimaryKeyMap a pair (model, old pk) only moves from unmapped to mapped.
\* Once get_pk would return a value for the pair it returns a value after every
\* step, and only an insert for the pair itself changes that value: inserts for other
\* pairs and the three getters leave it alone.
C28_MappedStaysMapped ==
    [][\A name \in PkModels, old \in OldPks :
          LET before == Lookup(mapping, name, old, 1).ret
              after == Lookup(mapping', name, old, 1).ret
          IN before # None =>
                /\ after # None
                /\ ~InsertFor(name, old) => after = before]_vars

\* insert(T, 5, 105), then inserts for another old pk of T and for the same old pk of
\* another model, then get_pk(T, 5) still returns 105.
C28_Witness ==
    /\ Len(log) = 3
    /\ log[1].model = 1 /\ log[1].old = 5 /\ log[1].new = 105
    /\ log[2].model = 1 /\ log[2].old = 6
    /\ log[3].model = 2 /\ log[3].old = 5
    /\ pk_ret.op = "get_pk"
    /\ pk_ret.model = 1
    /\ pk_ret.old = 5
    /\ pk_ret.ret = Some(105)



\* Two of the scopes RelocationRootModels declares roots for.
RelocationScopes == {"User", "Organization"}

\* C22: a non-root model is classified non-dangling only if a chain of non-nullable
\* edges leads from it to a root of its own scope. Whatever scope each model has (for a
\* root: the scope it is declared the root of), a model whose chains reach only roots
\* of other scopes is dangling after the build.
C22_AnchoredInOwnScope ==
    pc = "done" =>
        \A scope \in [Nodes -> RelocationScopes] :
            \A m \in Nodes \ roots :
                dangling[m] = "False" =>
                    m \in Anchored({r \in roots : scope[r] = scope[m]})



\* C21: every ForeignKey or OneToOneField of a model that refers to the model itself
\* leaves a self-edge among the foreign keys built for the model.
C21_SelfRelationKept ==
    relations.err = "none" =>
        \A i \in 1..Len(fields) :
            (fields[i].type \in ForeignKeys /\ fields[i].rel = building) =>
                /\ fields[i].name \in DOMAIN relations.foreign_keys
                /\ relations.foreign_keys[fields[i].name].model = building



\* The model the numeric-suffix heuristic is expected to find for a field name of the
\* bounded schemas, written out by hand: NoModel where it is expected to find none.
ExpectedImplicit(name) ==
    CASE name = TeamId -> TeamModel
      [] name = TeamIdUpper -> TeamModel
      [] name = ApiKeyId -> ApiKeyModel
      [] OTHER -> NoModel

\* C27: the numeric-suffix heuristic adds an edge for a field only if the field is of
\* one of the three bounded integer classes, its name ends in "_id" and is not
\* "actor_id", and "sentry." with the name's fragment names a model of the registry;
\* the edge leads to that model and has the field's nullability. An integer field
\* named "actor_id" or whose fragment names no model yields no edge, and the only
\* exception a build raises is the KeyError of a HybridCloudForeignKey.
C27_ImplicitOnlyForKnown ==
    /\ relations.err = "none" =>
          /\ \A i \in 1..Len(fields) :
                LET field == fields[i]
                    fk == relations.foreign_keys
                IN /\ (field.name \in DOMAIN fk
                         /\ fk[field.name].kind = "ImplicitForeignKey") =>
                          /\ field.type \in SimpleIntegerFields
                          /\ ExpectedImplicit(field.name) # NoModel
                          /\ fk[field.name] =
                                ForeignFieldOfKind(ExpectedImplicit(field.name),
                                                   "ImplicitForeignKey", field.null)
                   /\ (field.type \in SimpleIntegerFields
                         /\ ExpectedImplicit(field.name) # NoModel) =>
                          /\ field.name \in DOMAIN fk
                          /\ fk[field.name].kind = "ImplicitForeignKey"
                   /\ (field.type \in SimpleIntegerFields
                         /\ ExpectedImplicit(field.name) = NoModel) =>
                          field.name \notin DOMAIN fk
          /\ \A name \in DOMAIN relations.foreign_keys :
                \E i \in 1..Len(fields) : fields[i].name = name
    /\ relations.err \notin {"none", "not built"} =>
          /\ relations.err = "KeyError"
          /\ \E i \in 1..Len(fields) :
                /\ fields[i].type = "HybridCloudForeignKey"
                /\ NormalizedModelName(fields[i].foreign_model_name)
                      \notin DOMAIN ModelsFromNames

\* The relations built for a model with an integer field "actor_id" and an integer
\* field "team_id": one implicit edge, to Team.
C27_Witness ==
    /\ relations.err = "none"
    /\ \E i, j \in 1..Len(fields) :
          /\ fields[i].name = ActorId
          /\ fields[i].type = "BoundedBigIntegerField"
          /\ fields[j].name = TeamId
          /\ fields[j].type = "BoundedPositiveIntegerField"
    /\ DOMAIN relations.foreign_keys = {TeamId}
    /\ relations.foreign_keys[TeamId].model = TeamModel
    /\ relations.foreign_keys[TeamId].kind = "ImplicitForeignKey"


====
